---- MODULE Spec2Model ----
(***************************************************************************)
(* One-shot channel of the aiosync repository.                             *)
(*                                                                         *)
(*   aio_sync/oneshot.py : _SharedState, OneShotSender, OneShotReceiver,   *)
(*                         oneshot_channel, OneShot.channel                *)
(*   aiosync/oneshot.py  : OneShot (single object)                         *)
(*                                                                         *)
(* The heap holds asyncio.Event objects (events) and cells (cells); a      *)
(* channel is a pair of handles pointing at a cell.  send and try_recv are *)
(* plain functions: with no await inside they run as one step of the event *)
(* loop.  recv is a coroutine: it suspends at `await waker.wait()` when    *)
(* the event is unset, is made ready by Event.set(), and resumes in a      *)
(* later step of the loop; its task can be cancelled while it is suspended *)
(* or ready.  A program imports the channel from one of the two packages   *)
(* (module); every channel it constructs is of that package.  EqSpec runs  *)
(* the two packages side by side, operation by operation.                  *)
(***************************************************************************)
EXTENDS Integers, Sequences, FiniteSets, TLC

\* ---- bounds --------------------------------------------------------------
NumChans == 2
NumTasks == 2
MaxVal   == 1
MaxSends == 2

\* ---- payloads --------------------------------------------------------------
\* Python's None (the default of _SharedState.value, and what try_recv
\* returns on an unset waker) is the payload 0; the other payloads are 1..MaxVal.
None == 0
Values == 1..MaxVal
Payloads == Values \cup {None}

Chans == 1..NumChans
Tasks == 1..NumTasks

\* Ids for a second copy of every channel and task.  They are used only when
\* the two packages are run side by side (EqSpec): channel c of aio_sync has
\* the aiosync channel Twin(c) next to it, task t has TwinTask(t).
AllChans == 1..(2 * NumChans)
AllTasks == 1..(2 * NumTasks)
Twin(c) == c + NumChans
TwinTask(t) == t + NumTasks

Modules == {"aio_sync", "aiosync"}

VARIABLES
  module,    \* the package the program imports its one-shot channel from
             \*   ("both" when the two are run side by side)
  nchan,     \* number of channels constructed so far
  chans,     \* chans[c]: kind of channel c and the cell its handles point at
  cells,     \* heap of cells: waker (an Event id), sent, value
  events,    \* heap of asyncio.Event objects: events[e] is Event._value
  pc,        \* pc[t]: where recv task t stands
  tchan,     \* tchan[t]: the channel task t's recv was called on
  ret,       \* ret[t]: outcome of task t's finished recv: exception raised,
             \*   value returned, whether the call suspended, whether
             \*   Event.set() had completed its wait
  last,      \* the last synchronous call (send / try_recv) and its outcome
  sentVals,  \* history: sentVals[c] = arguments of the sends on c that returned
  nErr       \* history: nErr[c] = number of sends on c that raised

vars == <<module, nchan, chans, cells, events, pc, tchan, ret, last, sentVals, nErr>>

NoChan == [kind |-> "none", sender |-> 0, receiver |-> 0]
NoRet  == [raised |-> "", val |-> None, susp |-> FALSE, woken |-> FALSE]
NoCall == [op |-> "none", chan |-> 0, arg |-> None, raised |-> "", val |-> None]

\* ---- asyncio.Event -------------------------------------------------------
\* Event(): _value = False, no waiters.
Event_new == FALSE

\* Event.is_set()
Event_is_set(e) == events[e]

\* The Event a suspended task t waits on: the waker of its receiver's cell.
WaitedEvent(t) == cells[chans[tchan[t]].receiver].waker

\* Event.set() that completes the future of one waiter only.
Event_set_one(ev, p, e) ==
  IF ev[e] THEN [events |-> ev, pc |-> p]
  ELSE [events |-> [ev EXCEPT ![e] = TRUE],
        pc |-> IF \E t \in Tasks : p[t] = "waiting" /\ WaitedEvent(t) = e
               THEN LET w == CHOOSE t \in Tasks : p[t] = "waiting" /\ WaitedEvent(t) = e
                    IN  [p EXCEPT ![w] = "ready"]
               ELSE p]

\* Event.set(): no-op when already set; otherwise marks the event set and
\* completes the future of every waiter, which makes those tasks ready.
Event_set(ev, p, e) ==
  IF ev[e] THEN [events |-> ev, pc |-> p]
  ELSE [events |-> [ev EXCEPT ![e] = TRUE],
        pc |-> [t \in AllTasks |->
                  IF p[t] = "waiting" /\ WaitedEvent(t) = e THEN "ready" ELSE p[t]]]

\* ---- aio_sync/oneshot.py ---------------------------------------------------
\* _SharedState(): waker = Event(), sent = False, value = None
SharedState(e) == [waker |-> e, sent |-> FALSE, value |-> None]

\* send without the `self._state.sent = True` store.
send_nosent(st, value) ==
  IF Event_is_set(cells[st].waker)
  THEN [raised |-> "ValueError", cells |-> cells, events |-> events, pc |-> pc]
  ELSE LET c1 == [cells EXCEPT ![st].value = value]
           w  == Event_set(events, pc, c1[st].waker)
       IN  [raised |-> "", cells |-> c1, events |-> w.events, pc |-> w.pc]

\* send without the `self._state.value = value` store.
send_novalue(st, value) ==
  IF Event_is_set(cells[st].waker)
  THEN [raised |-> "ValueError", cells |-> cells, events |-> events, pc |-> pc]
  ELSE LET c2 == [cells EXCEPT ![st].sent = TRUE]
           w  == Event_set(events, pc, c2[st].waker)
       IN  [raised |-> "", cells |-> c2, events |-> w.events, pc |-> w.pc]

\* send without the `if waker.is_set(): raise ValueError` guard.
send_unguarded(st, value) ==
  LET c1 == [cells EXCEPT ![st].value = value]
      c2 == [c1 EXCEPT ![st].sent = TRUE]
      w  == Event_set(events, pc, c2[st].waker)
  IN  [raised |-> "", cells |-> c2, events |-> w.events, pc |-> w.pc]

\* OneShotSender.send(value), on the cell st the sender handle points at.
\* Returns the exception raised ("" for a normal return) and the heap after.
send(st, value) ==
  IF Event_is_set(cells[st].waker)
  THEN [raised |-> "ValueError", cells |-> cells, events |-> events, pc |-> pc]
  ELSE LET c1 == [cells EXCEPT ![st].value = value]
           c2 == [c1 EXCEPT ![st].sent = TRUE]
           w  == Event_set(events, pc, c2[st].waker)
       IN  [raised |-> "", cells |-> c2, events |-> w.events, pc |-> w.pc]

\* try_recv that takes the value out of the cell when it returns it.
try_recv_take(st) ==
  IF Event_is_set(cells[st].waker)
  THEN IF cells[st].sent
       THEN [raised |-> "", val |-> cells[st].value,
             cells |-> [cells EXCEPT ![st].value = None]]
       ELSE [raised |-> "AssertionError", val |-> None, cells |-> cells]
  ELSE [raised |-> "", val |-> None, cells |-> cells]

\* try_recv with the test on the waker inverted.
try_recv_inverted(st) ==
  IF ~Event_is_set(cells[st].waker)
  THEN IF cells[st].sent
       THEN [raised |-> "", val |-> cells[st].value, cells |-> cells]
       ELSE [raised |-> "AssertionError", val |-> None, cells |-> cells]
  ELSE [raised |-> "", val |-> None, cells |-> cells]

\* OneShotReceiver.try_recv(), on the cell st the receiver handle points at.
\* Returns the exception raised, the value returned and the cells after.
try_recv(st) ==
  IF Event_is_set(cells[st].waker)
  THEN IF cells[st].sent
       THEN [raised |-> "", val |-> cells[st].value, cells |-> cells]
       ELSE [raised |-> "AssertionError", val |-> None, cells |-> cells]
  ELSE [raised |-> "", val |-> None, cells |-> cells]

\* recv that empties the cell again once it has read the value.
recv_tail_clear(st) ==
  IF cells[st].sent
  THEN [raised |-> "", val |-> cells[st].value,
        cells |-> [cells EXCEPT ![st].sent = FALSE, ![st].value = None]]
  ELSE [raised |-> "AssertionError", val |-> None, cells |-> cells]

\* OneShotReceiver.recv() from the point where `await waker.wait()` returns.
recv_tail(st) ==
  IF cells[st].sent
  THEN [raised |-> "", val |-> cells[st].value, cells |-> cells]
  ELSE [raised |-> "AssertionError", val |-> None, cells |-> cells]

\* ---- aiosync/oneshot.py ----------------------------------------------------
\* OneShot(): _waker = Event(), _sent = False, _value = None
OneShot_new(e) == [waker |-> e, sent |-> FALSE, value |-> None]

\* OneShot.send without the `if self._waker.is_set(): raise ValueError` guard.
OneShot_send_unguarded(self, value) ==
  LET c1 == [cells EXCEPT ![self].value = value]
      c2 == [c1 EXCEPT ![self].sent = TRUE]
      w  == Event_set(events, pc, c2[self].waker)
  IN  [raised |-> "", cells |-> c2, events |-> w.events, pc |-> w.pc]

\* OneShot.send that stores the value and raises the waker but leaves
\* `self._sent` alone.
OneShot_send_nosent(self, value) ==
  IF Event_is_set(cells[self].waker)
  THEN [raised |-> "ValueError", cells |-> cells, events |-> events, pc |-> pc]
  ELSE LET c1 == [cells EXCEPT ![self].value = value]
           w  == Event_set(events, pc, c1[self].waker)
       IN  [raised |-> "", cells |-> c1, events |-> w.events, pc |-> w.pc]

\* OneShot.send without the final `self._waker.set()`.
OneShot_send_noset(self, value) ==
  IF Event_is_set(cells[self].waker)
  THEN [raised |-> "ValueError", cells |-> cells, events |-> events, pc |-> pc]
  ELSE LET c1 == [cells EXCEPT ![self].value = value]
           c2 == [c1 EXCEPT ![self].sent = TRUE]
       IN  [raised |-> "", cells |-> c2, events |-> events, pc |-> pc]

\* OneShot.send(value)
OneShot_send(self, value) ==
  IF Event_is_set(cells[self].waker)
  THEN [raised |-> "ValueError", cells |-> cells, events |-> events, pc |-> pc]
  ELSE LET c1 == [cells EXCEPT ![self].value = value]
           c2 == [c1 EXCEPT ![self].sent = TRUE]
           w  == Event_set(events, pc, c2[self].waker)
       IN  [raised |-> "", cells |-> c2, events |-> w.events, pc |-> w.pc]

\* OneShot.try_recv that takes the value out of the object when it returns it.
OneShot_try_recv_take(self) ==
  IF Event_is_set(cells[self].waker)
  THEN IF cells[self].sent
       THEN [raised |-> "", val |-> cells[self].value,
             cells |-> [cells EXCEPT ![self].value = None]]
       ELSE [raised |-> "AssertionError", val |-> None, cells |-> cells]
  ELSE [raised |-> "", val |-> None, cells |-> cells]

\* OneShot.try_recv with the assertion on _sent made before the waker test.
OneShot_try_recv_assert_first(self) ==
  IF ~cells[self].sent
  THEN [raised |-> "AssertionError", val |-> None, cells |-> cells]
  ELSE IF Event_is_set(cells[self].waker)
       THEN [raised |-> "", val |-> cells[self].value, cells |-> cells]
       ELSE [raised |-> "", val |-> None, cells |-> cells]

\* OneShot.try_recv()
OneShot_try_recv(self) ==
  IF Event_is_set(cells[self].waker)
  THEN IF cells[self].sent
       THEN [raised |-> "", val |-> cells[self].value, cells |-> cells]
       ELSE [raised |-> "AssertionError", val |-> None, cells |-> cells]
  ELSE [raised |-> "", val |-> None, cells |-> cells]

\* OneShot.recv() from the point where `await self._waker.wait()` returns.
OneShot_recv_tail(self) ==
  IF cells[self].sent
  THEN [raised |-> "", val |-> cells[self].value, cells |-> cells]
  ELSE [raised |-> "AssertionError", val |-> None, cells |-> cells]

\* ---- dispatch on the kind of channel -------------------------------------
Live(c) == c \in 1..nchan

DoSend(c, v) ==
  IF chans[c].kind = "aio_sync" THEN send(chans[c].sender, v)
                                ELSE OneShot_send(chans[c].sender, v)

DoTryRecv(c) ==
  IF chans[c].kind = "aio_sync" THEN try_recv(chans[c].receiver)
                                ELSE OneShot_try_recv(chans[c].receiver)

DoRecvTail(c) ==
  IF chans[c].kind = "aio_sync" THEN recv_tail(chans[c].receiver)
                                ELSE OneShot_recv_tail(chans[c].receiver)

\* ---- initial state ---------------------------------------------------------
Init ==
  /\ module \in Modules
  /\ nchan = 0
  /\ chans = [c \in AllChans |-> NoChan]
  /\ cells = [c \in AllChans |-> SharedState(c)]
  /\ events = [c \in AllChans |-> Event_new]
  /\ pc = [t \in AllTasks |-> "idle"]
  /\ tchan = [t \in AllTasks |-> 0]
  /\ ret = [t \in AllTasks |-> NoRet]
  /\ last = NoCall
  /\ sentVals = [c \in AllChans |-> <<>>]
  /\ nErr = [c \in AllChans |-> 0]

\* ---- operations ----------------------------------------------------------
\* oneshot_channel() whose cells all share one Event (a class-level
\* `waker = Event()` in place of `default_factory=Event`).
oneshot_channel_shared_waker ==
  /\ module = "aio_sync"
  /\ nchan < NumChans
  /\ LET c == nchan + 1 IN
       /\ nchan' = c
       /\ events' = events
       /\ cells' = [cells EXCEPT ![c] = SharedState(1)]
       /\ chans' = [chans EXCEPT ![c] = [kind |-> "aio_sync", sender |-> c, receiver |-> c]]
  /\ UNCHANGED <<module, pc, tchan, ret, last, sentVals, nErr>>

\* oneshot_channel() / OneShot.channel(): a fresh _SharedState with a fresh
\* Event, and a sender and a receiver handle that both point at it.
oneshot_channel ==
  /\ module = "aio_sync"
  /\ nchan < NumChans
  /\ LET c == nchan + 1 IN
       /\ nchan' = c
       /\ events' = [events EXCEPT ![c] = Event_new]
       /\ cells' = [cells EXCEPT ![c] = SharedState(c)]
       /\ chans' = [chans EXCEPT ![c] = [kind |-> "aio_sync", sender |-> c, receiver |-> c]]
  /\ UNCHANGED <<module, pc, tchan, ret, last, sentVals, nErr>>

\* aiosync.OneShot(): one object that is its own sender and receiver.
OneShot ==
  /\ module = "aiosync"
  /\ nchan < NumChans
  /\ LET c == nchan + 1 IN
       /\ nchan' = c
       /\ events' = [events EXCEPT ![c] = Event_new]
       /\ cells' = [cells EXCEPT ![c] = OneShot_new(c)]
       /\ chans' = [chans EXCEPT ![c] = [kind |-> "aiosync", sender |-> c, receiver |-> c]]
  /\ UNCHANGED <<module, pc, tchan, ret, last, sentVals, nErr>>

\* send that hands the value over only to a receiver that is already parked
\* (a rendezvous): on an Empty cell it does not run until a recv() waits.
Send_rendezvous(c, v) ==
  /\ Live(c)
  /\ Len(sentVals[c]) + nErr[c] < MaxSends
  /\ Event_is_set(cells[chans[c].sender].waker)
       \/ \E t \in Tasks : pc[t] = "waiting" /\ tchan[t] = c
  /\ LET r == DoSend(c, v) IN
       /\ cells' = r.cells
       /\ events' = r.events
       /\ pc' = r.pc
       /\ last' = [op |-> "send", chan |-> c, arg |-> v, raised |-> r.raised, val |-> None]
       /\ sentVals' = IF r.raised = "" THEN [sentVals EXCEPT ![c] = Append(@, v)] ELSE sentVals
       /\ nErr' = IF r.raised = "" THEN nErr ELSE [nErr EXCEPT ![c] = @ + 1]
  /\ UNCHANGED <<module, nchan, chans, tchan, ret>>

\* sender.send(v) on channel c.
Send(c, v) ==
  /\ Live(c)
  /\ Len(sentVals[c]) + nErr[c] < MaxSends
  /\ LET r == DoSend(c, v) IN
       /\ cells' = r.cells
       /\ events' = r.events
       /\ pc' = r.pc
       /\ last' = [op |-> "send", chan |-> c, arg |-> v, raised |-> r.raised, val |-> None]
       /\ sentVals' = IF r.raised = "" THEN [sentVals EXCEPT ![c] = Append(@, v)] ELSE sentVals
       /\ nErr' = IF r.raised = "" THEN nErr ELSE [nErr EXCEPT ![c] = @ + 1]
  /\ UNCHANGED <<module, nchan, chans, tchan, ret>>

\* receiver.try_recv() on channel c.
TryRecv(c) ==
  /\ Live(c)
  /\ LET r == DoTryRecv(c) IN
       /\ cells' = r.cells
       /\ last' = [op |-> "try_recv", chan |-> c, arg |-> None, raised |-> r.raised, val |-> r.val]
  /\ UNCHANGED <<module, nchan, chans, events, pc, tchan, ret, sentVals, nErr>>

\* recv that always parks the task, whether or not the waker is already set.
RecvCall_park(t, c) ==
  /\ Live(c)
  /\ pc[t] \in {"idle", "done"}
  /\ tchan' = [tchan EXCEPT ![t] = c]
  /\ pc' = [pc EXCEPT ![t] = "waiting"]
  /\ ret' = [ret EXCEPT ![t] = NoRet]
  /\ UNCHANGED <<module, nchan, chans, cells, events, last, sentVals, nErr>>

\* Task t calls `await receiver.recv()` on channel c.  Event.wait() returns
\* at once when the event is set; otherwise it parks the task on a future.
RecvCall(t, c) ==
  /\ Live(c)
  /\ pc[t] \in {"idle", "done"}
  /\ tchan' = [tchan EXCEPT ![t] = c]
  /\ IF Event_is_set(cells[chans[c].receiver].waker)
     THEN LET r == DoRecvTail(c) IN
            /\ pc' = [pc EXCEPT ![t] = "done"]
            /\ ret' = [ret EXCEPT ![t] = [raised |-> r.raised, val |-> r.val,
                                          susp |-> FALSE, woken |-> FALSE]]
            /\ cells' = r.cells
     ELSE /\ pc' = [pc EXCEPT ![t] = "waiting"]
          /\ ret' = [ret EXCEPT ![t] = NoRet]
          /\ cells' = cells
  /\ UNCHANGED <<module, nchan, chans, events, last, sentVals, nErr>>

\* The event loop resumes task t, whose wait was completed by Event.set().
RecvResume(t) ==
  /\ pc[t] = "ready"
  /\ LET r == DoRecvTail(tchan[t]) IN
       /\ pc' = [pc EXCEPT ![t] = "done"]
       /\ ret' = [ret EXCEPT ![t] = [raised |-> r.raised, val |-> r.val,
                                     susp |-> TRUE, woken |-> TRUE]]
       /\ cells' = r.cells
  /\ UNCHANGED <<module, nchan, chans, events, tchan, last, sentVals, nErr>>

\* Cancellation that also abandons every other recv parked on the same waker
\* (as when all waiters share one future).
Cancel_all_waiters(t) ==
  /\ pc[t] \in {"waiting", "ready"}
  /\ pc' = [u \in AllTasks |->
              IF u = t \/ (pc[u] = "waiting" /\ WaitedEvent(u) = WaitedEvent(t))
              THEN "done" ELSE pc[u]]
  /\ ret' = [u \in AllTasks |->
               IF u = t \/ (pc[u] = "waiting" /\ WaitedEvent(u) = WaitedEvent(t))
               THEN [raised |-> "CancelledError", val |-> None,
                     susp |-> TRUE, woken |-> pc[u] = "ready"]
               ELSE ret[u]]
  /\ UNCHANGED <<module, nchan, chans, cells, events, tchan, last, sentVals, nErr>>

\* Task t is cancelled while its recv is suspended (or ready but not yet
\* resumed): CancelledError is thrown at the await, nothing after it runs.
Cancel(t) ==
  /\ pc[t] \in {"waiting", "ready"}
  /\ pc' = [pc EXCEPT ![t] = "done"]
  /\ ret' = [ret EXCEPT ![t] = [raised |-> "CancelledError", val |-> None,
                                susp |-> TRUE, woken |-> pc[t] = "ready"]]
  /\ UNCHANGED <<module, nchan, chans, cells, events, tchan, last, sentVals, nErr>>

Next ==
  \/ oneshot_channel
  \/ OneShot
  \/ \E c \in Chans, v \in Payloads : Send(c, v)
  \/ \E c \in Chans : TryRecv(c)
  \/ \E t \in Tasks, c \in Chans : RecvCall(t, c)
  \/ \E t \in Tasks : RecvResume(t)
  \/ \E t \in Tasks : Cancel(t)

Spec == Init /\ [][Next]_vars

\* The event loop runs every ready callback: a task made ready is resumed
\* unless it is cancelled first.
FairSpec == Spec /\ \A t \in Tasks : WF_vars(RecvResume(t))

\* ---- helpers for the properties ------------------------------------------
\* The cell behind channel c, and whether its waker is set.
CellOf(c) == cells[chans[c].receiver]
Filled(c) == events[CellOf(c).waker]
\* A send on channel c has returned normally; First(c) is what it was given.
HasSent(c) == sentVals[c] # <<>>
First(c) == sentVals[c][1]

TypeOK ==
  /\ module \in Modules
  /\ nchan \in 0..NumChans
  /\ \A c \in Chans : chans[c].kind \in {"none", "aio_sync", "aiosync"}
  /\ \A c \in Chans : cells[c].sent \in BOOLEAN /\ cells[c].value \in Payloads
  /\ \A t \in Tasks : pc[t] \in {"idle", "waiting", "ready", "done"}

\* ---- C1 ------------------------------------------------------------------
\* C1: for every payload v, when send(v) has succeeded on a freshly
\* constructed channel, a try_recv() on that channel returns v (and does not
\* raise).
C1_SendThenTryRecv ==
  (last.op = "try_recv" /\ HasSent(last.chan))
    => (last.raised = "" /\ last.val = First(last.chan))

\* A try_recv() that returned the non-None payload a send was given.
C1_Witness ==
  /\ last.op = "try_recv"
  /\ HasSent(last.chan)
  /\ First(last.chan) = MaxVal
  /\ last.val = MaxVal

\* ---- C2 ------------------------------------------------------------------
\* C2: a send on a channel on which a send has already succeeded raises
\* ValueError and leaves value, sent-flag and waker as the first send left
\* them (the first send's argument stored, sent true, waker set); no second
\* send ever succeeds, and a try_recv() after the rejected send still returns
\* the first value.
C2_FirstKept(c) ==
  /\ Len(sentVals[c]) = 1
  /\ CellOf(c).value = First(c)
  /\ CellOf(c).sent
  /\ Filled(c)

C2_SecondSendRejected ==
  /\ [](\A c \in Chans :
          /\ Len(sentVals[c]) <= 1
          /\ nErr[c] > 0 => C2_FirstKept(c)
          /\ (nErr[c] > 0 /\ last.op = "try_recv" /\ last.chan = c)
               => (last.raised = "" /\ last.val = First(c)))
  /\ [][\A c \in Chans, v \in Payloads :
          (Send(c, v) /\ HasSent(c))
            => /\ last'.raised = "ValueError"
               /\ cells' = cells
               /\ events' = events
               /\ pc' = pc]_vars

\* A send with another value was rejected, and a try_recv() after it
\* returned the first value.
C2_Witness ==
  /\ last.op = "try_recv"
  /\ nErr[last.chan] > 0
  /\ Len(sentVals[last.chan]) = 1
  /\ First(last.chan) = MaxVal
  /\ last.val = MaxVal

\* ---- C3 ------------------------------------------------------------------
\* C3: a recv() called on a channel on which no send has completed suspends
\* its task; while it is suspended a send on that channel can still run and
\* succeed; and once a send has completed, the suspended recv() eventually
\* finishes, returning the value that send was given (unless its task is
\* cancelled first, which abandons the call).
C3_Pending(t) == pc[t] \in {"waiting", "ready"}

C3_Resumed(t) ==
  /\ pc[t] = "done"
  /\ \/ ret[t].raised = "CancelledError"
     \/ ret[t].raised = "" /\ ret[t].val = First(tchan[t])

C3_RecvWaitsForSend ==
  /\ [][\A t \in Tasks, c \in Chans :
          (RecvCall(t, c) /\ ~HasSent(c)) => pc'[t] = "waiting"]_vars
  /\ [](\A t \in Tasks :
          pc[t] = "waiting"
            => /\ ~HasSent(tchan[t])
               /\ \A v \in Payloads :
                    ENABLED (Send(tchan[t], v) /\ last'.raised = ""))
  /\ \A t \in Tasks :
       (C3_Pending(t) /\ HasSent(tchan[t])) ~> C3_Resumed(t)

\* A recv() that suspended, was woken by a send and returned its value.
C3_Witness ==
  \E t \in Tasks :
    /\ pc[t] = "done"
    /\ ret[t].susp /\ ret[t].woken
    /\ ret[t].raised = ""
    /\ HasSent(tchan[t])
    /\ ret[t].val = First(tchan[t])
    /\ ret[t].val = MaxVal

\* ---- C4 ------------------------------------------------------------------
\* C4: a recv() that has returned, and a try_recv() that has returned a
\* value, did so on a channel whose send had already completed (the cell is
\* Filled), and the value returned is the value that send was given.
C4_RecvAfterSend ==
  /\ \A t \in Tasks :
       (pc[t] = "done" /\ ret[t].raised = "")
         => /\ HasSent(tchan[t])
            /\ Filled(tchan[t])
            /\ ret[t].val = First(tchan[t])
  /\ (last.op = "try_recv" /\ last.raised = "" /\ last.val # None)
       => /\ HasSent(last.chan)
          /\ Filled(last.chan)
          /\ last.val = First(last.chan)

\* A recv() on a single-object OneShot returned the value that was sent.
C4_Witness ==
  \E t \in Tasks :
    /\ pc[t] = "done"
    /\ ret[t].raised = ""
    /\ chans[tchan[t]].kind = "aiosync"
    /\ sentVals[tchan[t]] = <<MaxVal>>
    /\ ret[t].val = MaxVal

\* ---- C5 ------------------------------------------------------------------
\* C5: of the sends run on one channel, in whatever order the event loop
\* runs them, exactly one returns and every other one raises ValueError: two
\* sends give one success and one error, never two successes, and the stored
\* value stays the one the successful send was given.
C5_OneSendWins ==
  \A c \in Chans :
    LET ok == Len(sentVals[c]) IN
      /\ ok <= 1
      /\ (ok + nErr[c] >= 1) => ok = 1
      /\ (ok + nErr[c] = 2) => (ok = 1 /\ nErr[c] = 1)
      /\ HasSent(c) => CellOf(c).value = First(c)

\* Two sends with different values ran on a single-object OneShot: one
\* returned, the other raised.
C5_Witness ==
  /\ last.op = "send"
  /\ last.raised = "ValueError"
  /\ chans[last.chan].kind = "aiosync"
  /\ Len(sentVals[last.chan]) = 1
  /\ nErr[last.chan] = 1
  /\ last.arg # First(last.chan)

\* ---- C6 ------------------------------------------------------------------
\* C6: a try_recv() on a channel on which no send has completed returns None
\* and does not raise; try_recv can always run on a constructed channel and
\* suspends no task.
C6_TryRecvEmpty ==
  /\ []((last.op = "try_recv" /\ ~HasSent(last.chan))
          => (last.raised = "" /\ last.val = None))
  /\ [](\A c \in Chans : Live(c) => ENABLED TryRecv(c))
  /\ [][\A c \in Chans : TryRecv(c) => pc' = pc]_vars

\* A try_recv() on an empty single-object OneShot returned None.
C6_Witness ==
  /\ last.op = "try_recv"
  /\ chans[last.chan].kind = "aiosync"
  /\ ~HasSent(last.chan)
  /\ ~Filled(last.chan)
  /\ last.raised = ""
  /\ last.val = None

\* ---- C7 ------------------------------------------------------------------
\* C7: a recv() called on a channel whose send has completed finishes within
\* the call, returning the stored value: it is never parked, so no task is
\* ever waiting on a channel whose send has completed.
C7_RecvAfterSendImmediate ==
  /\ [][\A t \in Tasks, c \in Chans :
          (RecvCall(t, c) /\ HasSent(c))
            => /\ pc'[t] = "done"
               /\ ret'[t] = [raised |-> "", val |-> First(c),
                             susp |-> FALSE, woken |-> FALSE]]_vars
  /\ [](\A t \in Tasks : pc[t] = "waiting" => ~HasSent(tchan[t]))

\* A recv() that returned the sent value without having suspended.
C7_Witness ==
  \E t \in Tasks :
    /\ pc[t] = "done"
    /\ ~ret[t].susp
    /\ ret[t].raised = ""
    /\ sentVals[tchan[t]] = <<MaxVal>>
    /\ ret[t].val = MaxVal

\* ---- C8 ------------------------------------------------------------------
\* C8: cancelling a task whose recv() is parked changes no cell, no waker and
\* no other task.  On a channel with a recv() abandoned before the waker was
\* set: while no send has run the cell is still Empty and a send succeeds;
\* once a send has run, the cell holds its value, nobody is left parked, and
\* try_recv() and every other recv() that returned got that value; a recv()
\* still pending on that channel finishes once the send has run.
C8_Abandoned(t) ==
  pc[t] = "done" /\ ret[t].raised = "CancelledError" /\ ~ret[t].woken

C8_ChannelWorks(c) ==
  IF ~HasSent(c)
  THEN /\ ~Filled(c)
       /\ ~CellOf(c).sent
       /\ CellOf(c).value = None
       /\ \A v \in Payloads : ENABLED (Send(c, v) /\ last'.raised = "")
  ELSE /\ Filled(c)
       /\ CellOf(c).sent
       /\ CellOf(c).value = First(c)
       /\ \A u \in Tasks : tchan[u] = c => pc[u] # "waiting"
       /\ \A u \in Tasks :
            (tchan[u] = c /\ pc[u] = "done" /\ ret[u].raised # "CancelledError")
              => (ret[u].raised = "" /\ ret[u].val = First(c))
       /\ (last.op = "try_recv" /\ last.chan = c)
            => (last.raised = "" /\ last.val = First(c))

C8_CancelLeavesChannel ==
  /\ [][\A t \in Tasks :
          Cancel(t) => /\ cells' = cells
                       /\ events' = events
                       /\ \A u \in Tasks \ {t} : pc'[u] = pc[u] /\ ret'[u] = ret[u]]_vars
  /\ [](\A t \in Tasks : C8_Abandoned(t) => C8_ChannelWorks(tchan[t]))
  /\ \A c \in Chans :
       (HasSent(c) /\ \E t \in Tasks : C8_Abandoned(t) /\ tchan[t] = c)
         ~> (\A u \in Tasks : tchan[u] = c => pc[u] = "done")

\* One recv() was abandoned before the send; another recv() parked on the
\* same channel was then woken by the send and returned its value, and so
\* did a later try_recv().
C8_Witness ==
  \E t, u \in Tasks :
    /\ C8_Abandoned(t)
    /\ u # t
    /\ tchan[u] = tchan[t]
    /\ pc[u] = "done" /\ ret[u].woken /\ ret[u].raised = ""
    /\ ret[u].val = MaxVal
    /\ sentVals[tchan[t]] = <<MaxVal>>
    /\ last.op = "try_recv" /\ last.chan = tchan[t] /\ last.val = MaxVal

\* ---- C9 ------------------------------------------------------------------
\* C9: the successful send on a channel makes every recv() parked on it
\* ready; a recv() is ready or woken only after the send has completed; after
\* the send all recv() calls pending on the channel eventually finish; and
\* all recv() calls that returned on one channel, parked before the send or
\* started after it, returned the value the send was given.
C9_AllDone(c) == \A t \in Tasks : tchan[t] = c => ~C3_Pending(t)

C9_SendWakesAll ==
  /\ [][\A c \in Chans, v \in Payloads :
          (Send(c, v) /\ ~HasSent(c))
            => \A t \in Tasks :
                 (pc[t] = "waiting" /\ tchan[t] = c) => pc'[t] = "ready"]_vars
  /\ [](\A t \in Tasks :
          (pc[t] = "ready" \/ (pc[t] = "done" /\ ret[t].woken))
            => HasSent(tchan[t]))
  /\ [](\A t, u \in Tasks :
          (/\ pc[t] = "done" /\ ret[t].raised = ""
           /\ pc[u] = "done" /\ ret[u].raised = ""
           /\ tchan[t] = tchan[u])
            => (ret[t].val = ret[u].val /\ ret[t].val = First(tchan[t])))
  /\ \A c \in Chans : HasSent(c) ~> C9_AllDone(c)

\* Two recv() calls parked on the same channel were woken by its one send
\* and both returned the value sent.
C9_Witness ==
  \E t, u \in Tasks :
    /\ t # u
    /\ tchan[t] = tchan[u]
    /\ pc[t] = "done" /\ ret[t].woken /\ ret[t].raised = ""
    /\ pc[u] = "done" /\ ret[u].woken /\ ret[u].raised = ""
    /\ sentVals[tchan[t]] = <<MaxVal>>
    /\ ret[t].val = MaxVal
    /\ ret[u].val = MaxVal

\* ---- C10 -----------------------------------------------------------------
\* C10: once a send has succeeded on a channel, every try_recv() and every
\* recv() on it returns the value sent, a try_recv() repeated on the channel
\* gives the same outcome again, and none of these reads changes the cell.
C10_ReadIdempotent ==
  /\ [][\A c \in Chans :
          (TryRecv(c) /\ HasSent(c))
            => /\ last'.raised = "" /\ last'.val = First(c)
               /\ (last.op = "try_recv" /\ last.chan = c) => last' = last
               /\ cells' = cells /\ events' = events]_vars
  /\ [][\A t \in Tasks, c \in Chans :
          (RecvCall(t, c) /\ HasSent(c))
            => /\ ret'[t].raised = "" /\ ret'[t].val = First(c)
               /\ cells' = cells /\ events' = events]_vars
  /\ [][\A t \in Tasks :
          RecvResume(t)
            => /\ ret'[t].raised = "" /\ ret'[t].val = First(tchan[t])
               /\ cells' = cells /\ events' = events]_vars

\* After one send, two recv() calls and a try_recv() on the channel all
\* returned the value sent.
C10_Witness ==
  \E t, u \in Tasks :
    /\ t # u
    /\ tchan[t] = tchan[u]
    /\ pc[t] = "done" /\ ~ret[t].susp /\ ret[t].raised = ""
    /\ pc[u] = "done" /\ ~ret[u].susp /\ ret[u].raised = ""
    /\ last.op = "try_recv" /\ last.chan = tchan[t]
    /\ sentVals[tchan[t]] = <<MaxVal>>
    /\ ret[t].val = MaxVal /\ ret[u].val = MaxVal /\ last.val = MaxVal

\* ---- C11 -----------------------------------------------------------------
\* C11: in every state (each is a point where some task can run and observe
\* the cell), for every constructed channel, the waker is set exactly when
\* the sent-flag is true, and exactly when a send has completed and its
\* argument is the stored value; while the waker is unset the value is still
\* the initial None.
C11_SignalIffSent ==
  \A c \in Chans :
    Live(c) =>
      /\ Filled(c) <=> CellOf(c).sent
      /\ Filled(c) <=> (HasSent(c) /\ CellOf(c).value = First(c))
      /\ ~Filled(c) => CellOf(c).value = None

\* A try_recv() on a single-object OneShot observed the waker set, the
\* sent-flag true and the value stored, while another channel was Empty.
C11_Witness ==
  /\ last.op = "try_recv"
  /\ chans[last.chan].kind = "aiosync"
  /\ Filled(last.chan)
  /\ CellOf(last.chan).sent
  /\ CellOf(last.chan).value = MaxVal
  /\ last.val = MaxVal
  /\ \E d \in Chans : Live(d) /\ ~Filled(d) /\ ~CellOf(d).sent

\* ---- C12 -----------------------------------------------------------------
\* C12: a channel is constructed Empty, and no step undoes a send: once the
\* sent-flag is true it stays true, once the waker is set it stays set, once
\* the waker is set the stored value never changes, and a cell changes only
\* in a send step that finds its waker unset.
C12_Empty(c) ==
  ~Filled(c) /\ ~CellOf(c).sent /\ CellOf(c).value = None

C12_EmptyToFilledOnce ==
  /\ [](\A c \in Chans : (Live(c) /\ ~HasSent(c)) => C12_Empty(c))
  /\ [][\A c \in Chans :
          Live(c) =>
            /\ CellOf(c).sent => cells'[chans'[c].receiver].sent
            /\ Filled(c) => events'[cells'[chans'[c].receiver].waker]
            /\ Filled(c) => cells'[chans'[c].receiver] = CellOf(c)
            /\ (cells'[chans'[c].receiver] # CellOf(c))
                 => (~Filled(c) /\ \E v \in Payloads : Send(c, v))]_vars

\* After the send, a rejected send, a try_recv() and a recv() that was
\* parked before the send, the cell is still Filled with the first value.
C12_Witness ==
  \E c \in Chans, t \in Tasks :
    /\ Live(c)
    /\ sentVals[c] = <<MaxVal>>
    /\ nErr[c] > 0
    /\ last.op = "try_recv" /\ last.chan = c
    /\ tchan[t] = c /\ pc[t] = "done" /\ ret[t].woken /\ ret[t].raised = ""
    /\ Filled(c) /\ CellOf(c).sent /\ CellOf(c).value = MaxVal

\* ---- C13 -----------------------------------------------------------------
\* C13: a try_recv() step, a recv() call step and a recv() resume step leave
\* every cell and every waker as they were, whatever they return; any step
\* that changes a cell or a waker is a send that returned normally.
C13_ReceiversObserveOnly ==
  /\ [][((\E c \in Chans : TryRecv(c))
          \/ (\E t \in Tasks, c \in Chans : RecvCall(t, c))
          \/ (\E t \in Tasks : RecvResume(t)))
            => (cells' = cells /\ events' = events)]_vars
  /\ [][(cells' # cells \/ events' # events)
          => (last'.op = "send" /\ last'.raised = ""
              /\ \E c \in Chans, v \in Payloads : Send(c, v))]_vars

\* On a single-object OneShot a try_recv() returned the value and a recv()
\* returned it too; the cell still holds it.
C13_Witness ==
  \E t \in Tasks :
    /\ pc[t] = "done" /\ ret[t].raised = "" /\ ret[t].val = MaxVal
    /\ last.op = "try_recv" /\ last.chan = tchan[t] /\ last.val = MaxVal
    /\ chans[last.chan].kind = "aiosync"
    /\ CellOf(last.chan) = [waker |-> chans[last.chan].receiver,
                            sent |-> TRUE, value |-> MaxVal]
    /\ Filled(last.chan)

\* ---- C14 -----------------------------------------------------------------
\* C14: the assertion of try_recv() and recv() can never fail: in every
\* reachable state a set waker comes with a true sent-flag, no try_recv() and
\* no recv() has raised AssertionError, and the only exception a recv() ends
\* with is the CancelledError of its own cancellation.
C14_AssertionNeverFails ==
  /\ \A c \in Chans : (Live(c) /\ Filled(c)) => CellOf(c).sent
  /\ last.op = "try_recv" => last.raised = ""
  /\ \A t \in Tasks : ret[t].raised \in {"", "CancelledError"}
  /\ \A c \in Chans : Live(c) => DoTryRecv(c).raised = ""
  /\ \A t \in Tasks : pc[t] = "ready" => DoRecvTail(tchan[t]).raised = ""

\* With one recv() cancelled, another recv() woken by the send passed the
\* assertion, and so did a try_recv() after the send.
C14_Witness ==
  \E t, u \in Tasks :
    /\ pc[t] = "done" /\ ret[t].raised = "CancelledError"
    /\ pc[u] = "done" /\ ret[u].woken /\ ret[u].raised = ""
    /\ last.op = "try_recv" /\ last.chan = tchan[u] /\ last.raised = ""
    /\ Filled(last.chan)
    /\ chans[last.chan].kind = "aio_sync"

\* ---- C15 -----------------------------------------------------------------
\* C15: a send and a try_recv each run to their outcome within one step and
\* park no task; on an Empty cell a send can run and succeed for every
\* payload, whether or not a recv() is parked on the channel or anybody ever
\* reads; and the only step in which a task becomes parked is a recv() call
\* on a channel whose waker is unset.
C15_OnlyRecvSuspends ==
  /\ [][\A c \in Chans, v \in Payloads :
          Send(c, v)
            => /\ last'.op = "send" /\ last'.chan = c
               /\ last'.raised \in {"", "ValueError"}
               /\ \A t \in Tasks : pc'[t] = "waiting" => pc[t] = "waiting"]_vars
  /\ [][\A c \in Chans :
          TryRecv(c) => (last'.op = "try_recv" /\ last'.chan = c /\ pc' = pc)]_vars
  /\ [](\A c \in Chans :
          (Live(c) /\ ~Filled(c))
            => \A v \in Payloads : ENABLED (Send(c, v) /\ last'.raised = ""))
  /\ [][\A t \in Tasks :
          (pc'[t] = "waiting" /\ pc[t] # "waiting")
            => \E c \in Chans : RecvCall(t, c) /\ ~Filled(c)]_vars

\* A send succeeded on a channel on which no recv() was ever called, while a
\* recv() was parked on another channel.
C15_Witness ==
  /\ last.op = "send"
  /\ last.raised = ""
  /\ \A t \in Tasks : tchan[t] # last.chan
  /\ \E t \in Tasks : pc[t] = "waiting"

\* ---- the two packages side by side --------------------------------------
\* A program that imports both packages and does to an aiosync OneShot
\* (channel Twin(c), task TwinTask(t)) exactly what it does to an aio_sync
\* channel (channel c, task t), in the same step.  last.twin is the outcome
\* of the call on the twin.
EqNoCall == [op |-> "none", chan |-> 0, arg |-> None, raised |-> "", val |-> None,
             twin |-> [raised |-> "", val |-> None]]

\* The heap after two calls made from the same heap f: every change of either.
Merge(fa, fb, f) == [i \in DOMAIN f |-> IF fb[i] # f[i] THEN fb[i] ELSE fa[i]]

\* recv() on channel c up to its first suspension or its return.
RecvCallStep(c) ==
  IF Event_is_set(cells[chans[c].receiver].waker)
  THEN LET r == DoRecvTail(c) IN
         [pc |-> "done",
          ret |-> [raised |-> r.raised, val |-> r.val, susp |-> FALSE, woken |-> FALSE],
          cells |-> r.cells]
  ELSE [pc |-> "waiting", ret |-> NoRet, cells |-> cells]

\* recv() of a ready task, from the resumption to the return.
RecvResumeStep(t) ==
  LET r == DoRecvTail(tchan[t]) IN
    [pc |-> "done",
     ret |-> [raised |-> r.raised, val |-> r.val, susp |-> TRUE, woken |-> TRUE],
     cells |-> r.cells]

EqInit ==
  /\ module = "both"
  /\ nchan = 0
  /\ chans = [c \in AllChans |-> NoChan]
  /\ cells = [c \in AllChans |-> SharedState(c)]
  /\ events = [c \in AllChans |-> Event_new]
  /\ pc = [t \in AllTasks |-> "idle"]
  /\ tchan = [t \in AllTasks |-> 0]
  /\ ret = [t \in AllTasks |-> NoRet]
  /\ last = EqNoCall
  /\ sentVals = [c \in AllChans |-> <<>>]
  /\ nErr = [c \in AllChans |-> 0]

\* oneshot_channel() and OneShot().
EqChannel ==
  /\ nchan < NumChans
  /\ LET c == nchan + 1
         d == Twin(nchan + 1) IN
       /\ nchan' = c
       /\ events' = [events EXCEPT ![c] = Event_new, ![d] = Event_new]
       /\ cells' = [cells EXCEPT ![c] = SharedState(c), ![d] = OneShot_new(d)]
       /\ chans' = [chans EXCEPT
                      ![c] = [kind |-> "aio_sync", sender |-> c, receiver |-> c],
                      ![d] = [kind |-> "aiosync", sender |-> d, receiver |-> d]]
  /\ UNCHANGED <<module, pc, tchan, ret, last, sentVals, nErr>>

\* sender.send(v) and oneshot.send(v).
EqSend(c, v) ==
  /\ Live(c)
  /\ Len(sentVals[c]) + nErr[c] < MaxSends
  /\ Len(sentVals[Twin(c)]) + nErr[Twin(c)] < MaxSends
  /\ LET ra == DoSend(c, v)
         rb == DoSend(Twin(c), v) IN
       /\ cells' = Merge(ra.cells, rb.cells, cells)
       /\ events' = Merge(ra.events, rb.events, events)
       /\ pc' = Merge(ra.pc, rb.pc, pc)
       /\ last' = [op |-> "send", chan |-> c, arg |-> v, raised |-> ra.raised, val |-> None,
                   twin |-> [raised |-> rb.raised, val |-> None]]
       /\ sentVals' = [sentVals EXCEPT
                         ![c] = IF ra.raised = "" THEN Append(@, v) ELSE @,
                         ![Twin(c)] = IF rb.raised = "" THEN Append(@, v) ELSE @]
       /\ nErr' = [nErr EXCEPT
                     ![c] = IF ra.raised = "" THEN @ ELSE @ + 1,
                     ![Twin(c)] = IF rb.raised = "" THEN @ ELSE @ + 1]
  /\ UNCHANGED <<module, nchan, chans, tchan, ret>>

\* receiver.try_recv() and oneshot.try_recv().
EqTryRecv(c) ==
  /\ Live(c)
  /\ LET ra == DoTryRecv(c)
         rb == DoTryRecv(Twin(c)) IN
       /\ cells' = Merge(ra.cells, rb.cells, cells)
       /\ last' = [op |-> "try_recv", chan |-> c, arg |-> None,
                   raised |-> ra.raised, val |-> ra.val,
                   twin |-> [raised |-> rb.raised, val |-> rb.val]]
  /\ UNCHANGED <<module, nchan, chans, events, pc, tchan, ret, sentVals, nErr>>

\* Task t calls receiver.recv(), task TwinTask(t) calls oneshot.recv().
EqRecvCall(t, c) ==
  /\ Live(c)
  /\ pc[t] \in {"idle", "done"}
  /\ pc[TwinTask(t)] \in {"idle", "done"}
  /\ LET ra == RecvCallStep(c)
         rb == RecvCallStep(Twin(c)) IN
       /\ tchan' = [tchan EXCEPT ![t] = c, ![TwinTask(t)] = Twin(c)]
       /\ pc' = [pc EXCEPT ![t] = ra.pc, ![TwinTask(t)] = rb.pc]
       /\ ret' = [ret EXCEPT ![t] = ra.ret, ![TwinTask(t)] = rb.ret]
       /\ cells' = Merge(ra.cells, rb.cells, cells)
  /\ UNCHANGED <<module, nchan, chans, events, last, sentVals, nErr>>

\* The event loop resumes both tasks.
EqRecvResume(t) ==
  /\ pc[t] = "ready"
  /\ pc[TwinTask(t)] = "ready"
  /\ LET ra == RecvResumeStep(t)
         rb == RecvResumeStep(TwinTask(t)) IN
       /\ pc' = [pc EXCEPT ![t] = ra.pc, ![TwinTask(t)] = rb.pc]
       /\ ret' = [ret EXCEPT ![t] = ra.ret, ![TwinTask(t)] = rb.ret]
       /\ cells' = Merge(ra.cells, rb.cells, cells)
  /\ UNCHANGED <<module, nchan, chans, events, tchan, last, sentVals, nErr>>

\* Both tasks are cancelled while their recv is suspended or ready.
EqCancel(t) ==
  /\ pc[t] \in {"waiting", "ready"}
  /\ pc[TwinTask(t)] \in {"waiting", "ready"}
  /\ pc' = [pc EXCEPT ![t] = "done", ![TwinTask(t)] = "done"]
  /\ ret' = [ret EXCEPT
               ![t] = [raised |-> "CancelledError", val |-> None,
                       susp |-> TRUE, woken |-> pc[t] = "ready"],
               ![TwinTask(t)] = [raised |-> "CancelledError", val |-> None,
                                 susp |-> TRUE, woken |-> pc[TwinTask(t)] = "ready"]]
  /\ UNCHANGED <<module, nchan, chans, cells, events, tchan, last, sentVals, nErr>>

EqNext ==
  \/ EqChannel
  \/ \E c \in Chans, v \in Payloads : EqSend(c, v)
  \/ \E c \in Chans : EqTryRecv(c)
  \/ \E t \in Tasks, c \in Chans : EqRecvCall(t, c)
  \/ \E t \in Tasks : EqRecvResume(t)
  \/ \E t \in Tasks : EqCancel(t)

EqSpec == EqInit /\ [][EqNext]_vars

\* ---- C16 -----------------------------------------------------------------
\* C16: when the same sequence of constructions, sends, try_recv and recv
\* calls, resumptions and cancellations is applied to an aio_sync
\* sender/receiver pair and to an aiosync OneShot, every call gives the same
\* result or the same exception on both, and the two stay in corresponding
\* states: same sent-flag, same value, same waker state, same history of
\* sends, and the same position and outcome of every recv task.
C16_SameCell(c) ==
  /\ chans[c].kind = "aio_sync"
  /\ chans[Twin(c)].kind = "aiosync"
  /\ CellOf(c).sent = CellOf(Twin(c)).sent
  /\ CellOf(c).value = CellOf(Twin(c)).value
  /\ Filled(c) = Filled(Twin(c))
  /\ sentVals[c] = sentVals[Twin(c)]
  /\ nErr[c] = nErr[Twin(c)]

C16_SameTask(t) ==
  /\ pc[t] = pc[TwinTask(t)]
  /\ ret[t] = ret[TwinTask(t)]
  /\ tchan[TwinTask(t)] = (IF tchan[t] = 0 THEN 0 ELSE Twin(tchan[t]))

C16_ModulesEquivalent ==
  /\ \A c \in Chans : Live(c) => C16_SameCell(c)
  /\ \A t \in Tasks : C16_SameTask(t)
  /\ last.twin = [raised |-> last.raised, val |-> last.val]

\* On both sides a second send was rejected, after a recv() parked before
\* the first send had been woken by it and had returned its value.
C16_Witness ==
  /\ last.op = "send"
  /\ last.raised = "ValueError"
  /\ last.twin.raised = "ValueError"
  /\ \E t \in Tasks :
       /\ pc[t] = "done" /\ ret[t].woken /\ ret[t].raised = ""
       /\ ret[t].val = MaxVal
       /\ pc[TwinTask(t)] = "done" /\ ret[TwinTask(t)].woken
       /\ ret[TwinTask(t)].val = MaxVal
       /\ chans[tchan[TwinTask(t)]].kind = "aiosync"

\* ---- C17 -----------------------------------------------------------------
\* C17: a construction step yields a sender and a receiver handle that point
\* at the same cell; that cell and its waker are used by no channel
\* constructed before, the cell is Empty, and the older channels are left as
\* they were.  A send on one channel changes no other channel's cell or
\* waker, so on every channel without a completed send of its own try_recv()
\* returns None and a send succeeds, whatever was sent on the other channels.
C17_Fresh(c) ==
  LET st == chans'[c].receiver IN
    /\ chans'[c].sender = st
    /\ cells'[st] = [waker |-> cells'[st].waker, sent |-> FALSE, value |-> None]
    /\ ~events'[cells'[st].waker]
    /\ \A d \in 1..nchan :
         /\ chans'[d] = chans[d]
         /\ chans[d].receiver # st
         /\ chans[d].sender # st
         /\ CellOf(d).waker # cells'[st].waker
         /\ cells'[chans[d].receiver] = CellOf(d)
         /\ events'[CellOf(d).waker] = Filled(d)

C17_ChannelsIndependent ==
  /\ [][(oneshot_channel \/ OneShot) => C17_Fresh(nchan')]_vars
  /\ [][\A c \in Chans, v \in Payloads :
          Send(c, v)
            => \A d \in Chans \ {c} :
                 Live(d) => /\ cells'[chans[d].receiver] = CellOf(d)
                            /\ events'[CellOf(d).waker] = Filled(d)
                            /\ sentVals'[d] = sentVals[d]
                            /\ nErr'[d] = nErr[d]]_vars
  /\ [](\A d \in Chans :
          (Live(d) /\ ~HasSent(d))
            => /\ ~Filled(d)
               /\ DoTryRecv(d).raised = "" /\ DoTryRecv(d).val = None
               /\ \A v \in Payloads : ENABLED (Send(d, v) /\ last'.raised = ""))

\* Two channels from oneshot_channel(): a value was sent on one, and a
\* try_recv() on the other, on which nothing was sent, returned None.
C17_Witness ==
  \E c, d \in Chans :
    /\ c # d /\ Live(c) /\ Live(d)
    /\ chans[c].kind = "aio_sync" /\ chans[d].kind = "aio_sync"
    /\ sentVals[c] = <<MaxVal>> /\ Filled(c)
    /\ ~HasSent(d) /\ ~Filled(d)
    /\ last.op = "try_recv" /\ last.chan = d /\ last.val = None

\* ---- C18 -----------------------------------------------------------------
\* C18: for every payload, None included, whenever a try_recv() has returned
\* "no value" (None), no send has completed on that channel and a send on it
\* would succeed.
C18_NoValueMeansEmpty ==
  (last.op = "try_recv" /\ last.raised = "" /\ last.val = None)
    => /\ ~HasSent(last.chan)
       /\ \A v \in Payloads : ENABLED (Send(last.chan, v) /\ last'.raised = "")

====
